---- MODULE Spec2Model ----
(***************************************************************************)
(* Model of src/structures/Manager.ts (chiro.js): the Manager that owns    *)
(* the node connection, the players collection, the search resolver and    *)
(* the voice-state forwarder.  Node.ts and Player.ts are not part of the   *)
(* available sources; their constructors, connect, destroy and makeRequest *)
(* are modelled from the specification text.                               *)
(***************************************************************************)
EXTENDS Integers, Sequences, FiniteSets, TLC

(* ---------------------------- bounds ---------------------------------- *)
\* Player instances ever constructed (one more than there are guilds).
MaxSessions == 3

(* ---------------------------- inputs ---------------------------------- *)
Guilds == {1, 2}
Callers == {"a", "b"}
VoiceChannels == {"vc1", "vc2"}
ClientIDs == {"", "c1"}
Requesters == {"userA", "userB"}

(* ------------------------- values ------------------------------------- *)
\* JavaScript undefined for a session reference / for a string field.
Undefined == 0
UndefinedStr == "undefined"

PlayerOptions == [guild : Guilds, voiceChannel : VoiceChannels]

\* NodeOptions as the caller may pass them; defined = FALSE is `undefined`.
NoNodeOptions == [defined |-> FALSE, identifier |-> UndefinedStr, host |-> UndefinedStr]
DefaultNodeOptions == [defined |-> TRUE, identifier |-> "default", host |-> "localhost"]
CallerNodeOptions ==
    { [defined |-> TRUE, identifier |-> UndefinedStr, host |-> "example"],
      NoNodeOptions }

\* ManagerOptions as passed to the constructor: hasNode says whether the
\* object has an own property `node` (its value may still be undefined).
ManagerOptions ==
    { [hasNode |-> FALSE, node |-> NoNodeOptions] } \cup
    { [hasNode |-> TRUE, node |-> n] : n \in CallerNodeOptions }

\* Gateway events handed to updateVoiceState.  kind = "null" is a null or
\* absent event; t = UndefinedStr is an event object without a type tag.
Tags == {UndefinedStr, "GUILD_CREATE", "VOICE_SERVER_UPDATE", "VOICE_STATE_UPDATE"}
NullEvent == [kind |-> "null", t |-> UndefinedStr, d |-> 0]
Events == {NullEvent} \cup [kind : {"object"}, t : Tags, d : Guilds]

\* Backend search responses { identifier, results }.
Track(u) == [url |-> u, extra |-> "raw", requested_by |-> UndefinedStr,
             hasTracks |-> FALSE, tracks |-> <<>>]
PlaylistEntry == [url |-> "pl", extra |-> "raw", requested_by |-> UndefinedStr,
                  hasTracks |-> TRUE, tracks |-> <<Track("u1"), Track("u2")>>]
Identifiers == {"ytsearch", "scsearch", "ytplaylist"}
ResultLists == { <<>>, <<Track("u1")>>, <<Track("u2"), Track("u1")>>, <<PlaylistEntry>> }
Responses == [identifier : Identifiers, results : ResultLists]

NoResult == [type |-> "NONE", tracks |-> <<>>, requester |-> "", playlist |-> ""]
NoResponse == [identifier |-> "", results |-> <<>>]

VARIABLES
    options,        \* Manager.options
    node,           \* Manager.node (exists = FALSE: the field is undefined)
    nodes,          \* number of Node instances constructed so far
    initiated,      \* Manager.initiated
    players,        \* Manager.players: guild -> session instance
    sessions,       \* every Player instance constructed, by instance number
    connectCalls,   \* number of Node.connect invocations
    initCalled,     \* an init call has been made
    calls,          \* create calls issued by the application, per caller
    returned,       \* per guild, what the latest create call for it returned
    searches,       \* the search call each requester has in flight, if any
    last            \* what the most recent operation returned, raised and
                    \* wrote to the node's socket

vars == <<options, node, nodes, initiated, players, sessions,
          connectCalls, initCalled, calls, returned, searches, last>>

managerState == <<options, node, nodes, initiated, players, sessions,
                  connectCalls>>

(* --------------------- Node (from the specification) ------------------- *)
NoNode == [exists |-> FALSE, state |-> "DISCONNECTED", socket |-> "null"]

\* new Node(options): registers itself as the manager's node, DISCONNECTED,
\* with no socket handle yet.
NodeNew(nodeOptions) == [exists |-> TRUE, state |-> "DISCONNECTED", socket |-> "null"]

\* Node.connect(): opens the persistent socket.
connect(n) == [n EXCEPT !.state = "CONNECTING", !.socket = "open"]

\* Node.destroy(): closes the socket, back to DISCONNECTED; idempotent.
destroy(n) ==
    IF n.socket = "open"
    THEN [n EXCEPT !.state = "DISCONNECTED", !.socket = "closed"]
    ELSE n

(* --------------------- Manager.constructor ----------------------------- *)
\* { node: { identifier: "default", host: "localhost" }, ...options }
mergeOptions(opts) ==
    [node |-> IF opts.hasNode THEN opts.node ELSE DefaultNodeOptions,
     clientID |-> ""]

constructorConnects(opts) ==
    LET merged == mergeOptions(opts) IN
    IF merged.node.defined
    THEN [options |-> merged, node |-> connect(NodeNew(merged.node)), nodes |-> 1,
          connects |-> 1]
    ELSE [options |-> merged, node |-> NoNode, nodes |-> 0, connects |-> 0]

constructor(opts) ==
    LET merged == mergeOptions(opts) IN
    IF merged.node.defined
    THEN [options |-> merged, node |-> NodeNew(merged.node), nodes |-> 1,
          connects |-> 0]
    ELSE [options |-> merged, node |-> NoNode, nodes |-> 0, connects |-> 0]

(* --------------------- Manager.init ------------------------------------ *)
\* The result of every operation is a record of the Manager state it leaves
\* behind plus what the caller observes (ret, raised).
initAlwaysConnects(clientID) ==
    LET opts == IF clientID # "" THEN [options EXCEPT !.clientID = clientID]
                ELSE options
    IN  IF ~node.exists
        THEN [options |-> opts, node |-> node, initiated |-> initiated,
              connects |-> 0, raised |-> TRUE]
        ELSE [options |-> opts, node |-> connect(node), initiated |-> TRUE,
              connects |-> 1, raised |-> FALSE]

init(clientID) ==
    IF ~initiated
    THEN LET opts == IF clientID # "" THEN [options EXCEPT !.clientID = clientID]
                     ELSE options
         IN  IF ~node.exists
             \* this.node is undefined: this.node.connect() is a TypeError
             THEN [options |-> opts, node |-> node, initiated |-> FALSE,
                   connects |-> 0, raised |-> TRUE]
             ELSE [options |-> opts, node |-> connect(node), initiated |-> TRUE,
                   connects |-> 1, raised |-> FALSE]
    ELSE [options |-> options, node |-> node, initiated |-> initiated,
          connects |-> 0, raised |-> FALSE]

(* --------------------- players: create / get --------------------------- *)
has(guild) == guild \in DOMAIN players

\* new Player(options): the session registers itself in manager.players
\* under options.guild.
Player(playerOptions) ==
    LET id == Len(sessions) + 1 IN
    [players |-> (playerOptions.guild :> id) @@ players,
     sessions |-> Append(sessions, [guild |-> playerOptions.guild,
                                    voiceChannel |-> playerOptions.voiceChannel]),
     ret |-> id]

\* Collection.get(key): the value stored under key, or undefined.
collectionGet(guild) == IF has(guild) THEN players[guild] ELSE Undefined

getCreates(guild) ==
    IF has(guild)
    THEN [players |-> players, sessions |-> sessions, ret |-> players[guild]]
    ELSE Player([guild |-> guild, voiceChannel |-> "vc1"])

get(guild) ==
    [players |-> players, sessions |-> sessions, ret |-> collectionGet(guild)]

createAlwaysNew(playerOptions) == Player(playerOptions)

createNoConstruct(playerOptions) ==
    [players |-> players, sessions |-> sessions,
     ret |-> collectionGet(playerOptions.guild)]

createOverwrites(playerOptions) ==
    IF has(playerOptions.guild)
    THEN [players |-> players,
          sessions |-> [sessions EXCEPT ![players[playerOptions.guild]].voiceChannel =
                                            playerOptions.voiceChannel],
          ret |-> players[playerOptions.guild]]
    ELSE Player(playerOptions)

create(playerOptions) ==
    IF has(playerOptions.guild)
    THEN [players |-> players, sessions |-> sessions,
          ret |-> collectionGet(playerOptions.guild)]
    ELSE Player(playerOptions)

(* --------------------- Manager.destroyNode ----------------------------- *)
destroyNode ==
    IF ~node.exists
    THEN [node |-> node, raised |-> TRUE]      \* this.node is undefined
    ELSE [node |-> destroy(node), raised |-> FALSE]

(* --------------------- Manager.updateVoiceState ------------------------ *)
\* JSON.stringify(data): the text of the object, as its sequence of tokens;
\* a key whose value is undefined is left out.
JSONstringify(data) ==
    IF data.kind = "null" THEN <<"null">>
    ELSE <<"{">> \o (IF data.t = UndefinedStr THEN <<>> ELSE <<"t", data.t>>)
                 \o <<"d", ToString(data.d)>> \o <<"}">>

\* JSON.parse of such a text, back to the event it denotes.
JSONparse(text) ==
    IF text = <<"null">> THEN NullEvent
    ELSE LET number(str) == CHOOSE n \in Guilds : ToString(n) = str IN
         IF text[2] = "t"
         THEN [kind |-> "object", t |-> text[3], d |-> number(text[5])]
         ELSE [kind |-> "object", t |-> UndefinedStr, d |-> number(text[3])]

\* this.node.socket.send(frame).  With no node or no socket handle the
\* property access raises; on a closed socket nothing reaches the backend
\* and whether send raises depends on the socket library.
socketSend(frame, closedThrows) ==
    IF ~node.exists \/ node.socket = "null"
    THEN [writes |-> <<>>, raised |-> TRUE]
    ELSE IF node.socket = "closed"
         THEN [writes |-> <<>>, raised |-> closedThrows]
         ELSE [writes |-> <<frame>>, raised |-> FALSE]

NoSend == [writes |-> <<>>, raised |-> FALSE]

\* data.t || ""
tagOrEmpty(data) == IF data.t = UndefinedStr THEN "" ELSE data.t

RecognizedTags == {"VOICE_SERVER_UPDATE", "VOICE_STATE_UPDATE"}

updateVoiceStateNoGuard(data, closedThrows) ==
    socketSend(JSONstringify(data), closedThrows)

updateVoiceState(data, closedThrows) ==
    IF data.kind = "null" \/ tagOrEmpty(data) \notin RecognizedTags
    THEN NoSend
    ELSE LET first == IF data.t = "VOICE_SERVER_UPDATE"
                      THEN socketSend(JSONstringify(data), closedThrows)
                      ELSE NoSend
             second == IF ~first.raised /\ data.t = "VOICE_STATE_UPDATE"
                       THEN socketSend(JSONstringify(data), closedThrows)
                       ELSE NoSend
         IN  [writes |-> first.writes \o second.writes,
              raised |-> first.raised \/ second.raised]

(* --------------------- Manager.search ---------------------------------- *)
SearchIdentifiers == {UndefinedStr, "scsearch"}

\* searchQuery.identifier || 'ytsearch'
requestIdentifier(identifier) ==
    IF identifier = UndefinedStr THEN "ytsearch" ELSE identifier

buildTrackData(data, requester) ==
    [url |-> data.url, extra |-> UndefinedStr, requested_by |-> requester,
     hasTracks |-> FALSE, tracks |-> <<>>]

\* JavaScript truthiness of a string.
Truthy(str) == str # ""

\* The test the identifier would need: one of the two search tags.
identifierTestFixed(identifier) == identifier \in {"ytsearch", "scsearch"}

\* res.identifier === "ytsearch" || "scsearch": the comparison, or else the
\* string "scsearch" taken as a condition.
identifierTest(identifier) == (identifier = "ytsearch") \/ Truthy("scsearch")

resolveTrackDataNoEmptyCheck(res, requester) ==
    IF identifierTest(res.identifier)
    THEN [type |-> "SEARCH_RESULT", tracks |-> res.results,
          requester |-> requester, playlist |-> ""]
    ELSE [type |-> "NO_RESULT", tracks |-> <<>>, requester |-> requester,
          playlist |-> ""]

resolveTrackDataNormalizes(res, requester) ==
    IF Len(res.results) = 0
    THEN [type |-> "NO_RESULT", tracks |-> <<>>, requester |-> requester,
          playlist |-> ""]
    ELSE [type |-> "SEARCH_RESULT",
          tracks |-> [i \in 1..Len(res.results) |->
                         buildTrackData(res.results[i], requester)],
          requester |-> requester, playlist |-> ""]

resolveTrackData(res, requester) ==
    IF Len(res.results) = 0
    THEN [type |-> "NO_RESULT", tracks |-> <<>>, requester |-> requester,
          playlist |-> ""]
    ELSE IF identifierTest(res.identifier)
    THEN [type |-> "SEARCH_RESULT", tracks |-> res.results,
          requester |-> requester, playlist |-> ""]
    \* res.results[0].tracks.map(...): a TypeError when the first entry
    \* carries no nested tracks
    ELSE IF ~res.results[1].hasTracks
    THEN [type |-> "TypeError", tracks |-> <<>>, requester |-> requester,
          playlist |-> ""]
    ELSE [type |-> "PLAYLIST",
          tracks |-> [i \in 1..Len(res.results[1].tracks) |->
                         buildTrackData(res.results[1].tracks[i], requester)],
          requester |-> requester, playlist |-> res.results[1].url]

\* The requests search hands to this.node.makeRequest.
searchRequests(identifier) ==
    << [method |-> "GET", identifier |-> requestIdentifier(identifier)] >>

(* --------------------- state after construction ------------------------ *)
NoCall == [st |-> "idle", guild |-> 0, race |-> FALSE]

\* What the caller of the most recent operation observed.
Observed(op, arg, ret, raised) ==
    [op |-> op, arg |-> arg, ret |-> ret, raised |-> raised, existed |-> FALSE,
     race |-> FALSE, prev |-> Undefined, voiceChannel |-> "", again |-> FALSE,
     data |-> NullEvent, writes |-> << >>,
     requests |-> << >>, requester |-> "", response |-> NoResponse,
     result |-> NoResult]

Init ==
    \E opts \in ManagerOptions :
        LET m == constructor(opts) IN
        /\ options = m.options
        /\ node = m.node
        /\ nodes = m.nodes
        /\ connectCalls = m.connects
        /\ initiated = FALSE
        /\ players = << >>
        /\ sessions = << >>
        /\ initCalled = FALSE
        /\ calls = [c \in Callers |-> NoCall]
        /\ returned = [g \in Guilds |-> Undefined]
        /\ searches = [u \in Requesters |-> "idle"]
        /\ last = Observed("constructor", 0, Undefined, FALSE)

(* --------------------- operations -------------------------------------- *)
\* manager.init(clientID)
InitCall(clientID) ==
    LET r == init(clientID) IN
    /\ options' = r.options
    /\ node' = r.node
    /\ initiated' = r.initiated
    /\ connectCalls' = connectCalls + r.connects
    /\ initCalled' = TRUE
    /\ last' = [Observed("init", 0, Undefined, r.raised) EXCEPT !.again = initCalled]
    /\ UNCHANGED <<nodes, players, sessions, calls, returned, searches>>

\* The application issues manager.create(options) for a guild; the call
\* runs when the event loop reaches it.  race records that the guild was
\* not registered when the call was issued.
CallCreate(c, guild) ==
    /\ calls[c].st = "idle"
    /\ calls' = [calls EXCEPT ![c] =
                    [st |-> "pending", guild |-> guild, race |-> ~has(guild)]]
    /\ last' = Observed("call", 0, Undefined, FALSE)
    /\ UNCHANGED <<managerState, initCalled, returned, searches>>

\* manager.create(options) runs to completion (it is synchronous).
RunCreate(c, voiceChannel) ==
    /\ calls[c].st = "pending"
    /\ Len(sessions) < MaxSessions
    /\ LET playerOptions == [guild |-> calls[c].guild, voiceChannel |-> voiceChannel]
           r == create(playerOptions)
       IN  /\ players' = r.players
           /\ sessions' = r.sessions
           /\ calls' = [calls EXCEPT ![c] = NoCall]
           /\ returned' = [returned EXCEPT ![playerOptions.guild] = r.ret]
           /\ last' = [Observed("create", playerOptions.guild, r.ret, FALSE)
                          EXCEPT !.existed = has(playerOptions.guild),
                                 !.race = calls[c].race,
                                 !.prev = returned[playerOptions.guild],
                                 !.voiceChannel = voiceChannel]
    /\ UNCHANGED <<options, node, nodes, initiated, connectCalls, initCalled,
                   searches>>

\* manager.get(guild)
Get(guild) ==
    LET r == get(guild) IN
    /\ players' = r.players
    /\ sessions' = r.sessions
    /\ last' = [Observed("get", guild, r.ret, FALSE) EXCEPT !.existed = has(guild)]
    /\ UNCHANGED <<options, node, nodes, initiated, connectCalls, initCalled,
                   calls, returned, searches>>

\* manager.destroyNode()
DestroyNode ==
    LET r == destroyNode IN
    /\ node' = r.node
    /\ last' = Observed("destroyNode", 0, Undefined, r.raised)
    /\ UNCHANGED <<options, nodes, initiated, players, sessions, connectCalls,
                   initCalled, calls, returned, searches>>

\* manager.updateVoiceState(data)
UpdateVoiceState(data, closedThrows) ==
    LET r == updateVoiceState(data, closedThrows) IN
    /\ last' = [Observed("updateVoiceState", 0, Undefined, r.raised)
                   EXCEPT !.data = data, !.writes = r.writes]
    /\ UNCHANGED <<managerState, initCalled, calls, returned, searches>>

SearchCallQueued(identifier, requester) ==
    /\ \A u \in Requesters : searches[u] = "idle"
    /\ IF node.exists
       THEN /\ searches' = [searches EXCEPT ![requester] = "inflight"]
            /\ last' = [Observed("search", 0, Undefined, FALSE)
                           EXCEPT !.requests = searchRequests(identifier),
                                  !.requester = requester]
       ELSE /\ searches' = searches
            /\ last' = [Observed("search", 0, Undefined, TRUE)
                           EXCEPT !.requester = requester]
    /\ UNCHANGED <<managerState, initCalled, calls, returned>>

\* manager.search(searchQuery, requester) up to its await: the GET request
\* is issued.  Without a node, this.node.makeRequest raises and the promise
\* rejects at once.
SearchCall(identifier, requester) ==
    /\ searches[requester] = "idle"
    /\ IF node.exists
       THEN /\ searches' = [searches EXCEPT ![requester] = "inflight"]
            /\ last' = [Observed("search", 0, Undefined, FALSE)
                           EXCEPT !.requests = searchRequests(identifier),
                                  !.requester = requester]
       ELSE /\ searches' = searches
            /\ last' = [Observed("search", 0, Undefined, TRUE)
                           EXCEPT !.requester = requester]
    /\ UNCHANGED <<managerState, initCalled, calls, returned>>

\* The response arrives; search resumes and returns resolveTrackData(...).
SearchResolve(requester, response) ==
    /\ searches[requester] = "inflight"
    /\ searches' = [searches EXCEPT ![requester] = "idle"]
    /\ LET result == resolveTrackData(response, requester) IN
       last' = [Observed("searchResult", 0, Undefined, result.type = "TypeError")
                   EXCEPT !.result = result, !.requester = requester,
                          !.response = response]
    /\ UNCHANGED <<managerState, initCalled, calls, returned>>

SearchFailAbortsAll(requester) ==
    /\ searches[requester] = "inflight"
    /\ searches' = [u \in Requesters |-> "idle"]
    /\ last' = [Observed("searchResult", 0, Undefined, TRUE)
                   EXCEPT !.requester = requester]
    /\ UNCHANGED <<managerState, initCalled, calls, returned>>

\* The request fails (rejection or RequestError): search rejects.
SearchFail(requester) ==
    /\ searches[requester] = "inflight"
    /\ searches' = [searches EXCEPT ![requester] = "idle"]
    /\ last' = [Observed("searchResult", 0, Undefined, TRUE)
                   EXCEPT !.requester = requester]
    /\ UNCHANGED <<managerState, initCalled, calls, returned>>

\* The node's socket reports that it is open.
NodeOpen ==
    /\ node.exists
    /\ node.state = "CONNECTING"
    /\ node' = [node EXCEPT !.state = "CONNECTED"]
    /\ last' = Observed("nodeOpen", 0, Undefined, FALSE)
    /\ UNCHANGED <<options, nodes, initiated, players, sessions, connectCalls,
                   initCalled, calls, returned, searches>>

Next ==
    \/ \E clientID \in ClientIDs : InitCall(clientID)
    \/ \E c \in Callers, guild \in Guilds : CallCreate(c, guild)
    \/ \E c \in Callers, voiceChannel \in VoiceChannels : RunCreate(c, voiceChannel)
    \/ \E guild \in Guilds : Get(guild)
    \/ DestroyNode
    \/ \E data \in Events, closedThrows \in BOOLEAN : UpdateVoiceState(data, closedThrows)
    \/ \E identifier \in SearchIdentifiers, requester \in Requesters :
          SearchCall(identifier, requester)
    \/ \E requester \in Requesters, response \in Responses :
          SearchResolve(requester, response)
    \/ \E requester \in Requesters : SearchFail(requester)
    \/ NodeOpen

Spec == Init /\ [][Next]_vars

(* ======================= properties ==================================== *)
\* The Player instances constructed so far for a guild.
SessionsOf(guild) == { i \in 1..Len(sessions) : sessions[i].guild = guild }

\* Everything but the record of the latest observation and the callers'
\* own bookkeeping.
restOfState == <<managerState, initCalled, searches>>

\* C1: two successive create calls whose options carry the same guild return
\* the same session instance: a create call for a guild for which an
\* earlier create call returned a session returns that very session.
C1Theorem ==
    (last.op = "create" /\ last.prev # Undefined) => last.ret = last.prev

\* A second create call for a guild has returned.
C1Witness ==
    /\ last.op = "create"
    /\ last.prev # Undefined
    /\ last.ret # Undefined

\* C2: create calls racing on a guild that was not registered when they
\* were issued construct exactly one session for it, and every one of them
\* returns that session.
C2Theorem ==
    (last.op = "create" /\ last.race) =>
        /\ SessionsOf(last.arg) = {last.ret}
        /\ returned[last.arg] = last.ret
        /\ \A c \in Callers : calls[c].st = "pending" /\ calls[c].guild = last.arg
               => collectionGet(calls[c].guild) = last.ret

\* A call issued while the guild was absent found the guild registered when
\* it ran: another racing call had constructed the session in between.
C2Witness ==
    /\ last.op = "create"
    /\ last.race
    /\ last.existed
    /\ Len(sessions) >= 1

\* C3: the registry holds at most one session per guild, every session is
\* stored under its own guild ID, and no two live sessions share a guild ID.
C3Theorem ==
    /\ \A g \in DOMAIN players :
          /\ players[g] \in 1..Len(sessions)
          /\ sessions[players[g]].guild = g
    /\ \A i, j \in 1..Len(sessions) :
          sessions[i].guild = sessions[j].guild => i = j
    /\ \A i \in 1..Len(sessions) :
          has(sessions[i].guild) /\ players[sessions[i].guild] = i

\* Both guilds are registered and a further create call has been served.
C3Witness ==
    /\ DOMAIN players = Guilds
    /\ Len(sessions) = 2
    /\ last.op = "create"
    /\ last.existed

\* C4: create for a guild absent from the registry constructs a new session
\* from the options, inserts it under options.guild and returns it; right
\* after the call the registry contains the guild and get returns the very
\* instance create returned.
C4Theorem ==
    [][ (last'.op = "create" /\ ~last'.existed) =>
            LET g == last'.arg
                new == last'.ret
            IN  /\ ~has(g)
                /\ Len(sessions') = Len(sessions) + 1
                /\ new = Len(sessions')
                /\ sessions'[new] = [guild |-> g, voiceChannel |-> last'.voiceChannel]
                /\ \A i \in 1..Len(sessions) : sessions'[i] = sessions[i]
                /\ DOMAIN players' = DOMAIN players \cup {g}
                /\ players'[g] = new
                /\ \A h \in DOMAIN players : players'[h] = players[h]
                /\ (get(last.arg).ret)' = new
                /\ ~last'.raised
      ]_vars

\* create has just served a guild that was not registered.
C4Witness ==
    /\ last.op = "create"
    /\ ~last.existed
    /\ has(last.arg)
    /\ last.ret # Undefined

\* C5: create for a guild already in the registry returns the existing
\* session and ignores the other options: nothing is constructed, the
\* stored session keeps its attributes and the registry is as it was.
C5Theorem ==
    [][ (last'.op = "create" /\ last'.existed) =>
            /\ has(last'.arg)
            /\ last'.ret = players[last'.arg]
            /\ players' = players
            /\ sessions' = sessions
            /\ UNCHANGED restOfState
            /\ ~last'.raised
      ]_vars

\* create has just been called for a registered guild with a voice channel
\* other than the one its session holds.
C5Witness ==
    /\ last.op = "create"
    /\ last.existed
    /\ last.ret # Undefined
    /\ last.ret \in 1..Len(sessions)
    /\ sessions[last.ret].voiceChannel # last.voiceChannel

\* C6: get returns the registered session when the guild is present and
\* undefined when it is absent; it never creates a session and leaves the
\* registry and all other Manager state unchanged.
C6Theorem ==
    [][ last'.op = "get" =>
            /\ last'.ret = (IF last'.arg \in DOMAIN players THEN players[last'.arg]
                            ELSE Undefined)
            /\ ~last'.raised
            /\ UNCHANGED <<restOfState, calls, returned>>
      ]_vars

\* get has just answered undefined for an absent guild while another guild
\* is registered.
C6Witness ==
    /\ last.op = "get"
    /\ ~last.existed
    /\ last.ret = Undefined
    /\ DOMAIN players # {}
    /\ last.arg \notin DOMAIN players

\* C7: initialization is idempotent: connect is invoked at most once over
\* any sequence of operations, and every init call after the first is a
\* no-op that does not raise.
C7Claim ==
    [][ /\ connectCalls' <= 1
        /\ (last'.op = "init" /\ last'.again) =>
               /\ ~last'.raised
               /\ UNCHANGED <<restOfState, calls, returned>>
      ]_vars

\* The node connection has not been opened.
NotOpened ==
    /\ connectCalls = 0
    /\ node.state = "DISCONNECTED"
    /\ node.socket = "null"

\* C8: the node connection is DISCONNECTED after construction and is opened
\* by nothing but the first init call: while init has not run the
\* connection has not been opened, and a step that invokes connect or
\* opens the socket is the first init call.
C8Theorem ==
    /\ [](~initCalled => NotOpened)
    /\ [][ (\/ connectCalls' # connectCalls
            \/ node'.socket # node.socket /\ node'.socket = "open"
            \/ node'.state # node.state /\ node.state = "DISCONNECTED") =>
               /\ last'.op = "init"
               /\ ~initCalled
               /\ connectCalls' = connectCalls + 1
         ]_vars

\* Sessions exist, a voice event has been forwarded, init has not run and
\* the node is still disconnected.
C8Witness ==
    /\ ~initCalled
    /\ node.exists
    /\ DOMAIN players # {}
    /\ last.op = "updateVoiceState"
    /\ node.state = "DISCONNECTED"

\* An event that updateVoiceState must ignore: null or absent, without a
\* type tag, or with a tag other than the two voice tags.
Ignored(data) ==
    \/ data.kind = "null"
    \/ data.t = UndefinedStr
    \/ data.t \notin {"VOICE_SERVER_UPDATE", "VOICE_STATE_UPDATE"}

\* C9: updateVoiceState with a null event, an event without a type tag or an
\* event with an unrecognized tag writes nothing to the socket, does not
\* raise and changes no Manager state.
C9Theorem ==
    [][ (last'.op = "updateVoiceState" /\ Ignored(last'.data)) =>
            /\ last'.writes = << >>
            /\ ~last'.raised
            /\ UNCHANGED <<restOfState, calls, returned>>
      ]_vars

\* A GUILD_CREATE event has been handed over while the socket was open.
C9Witness ==
    /\ last.op = "updateVoiceState"
    /\ last.data.kind = "object"
    /\ last.data.t = "GUILD_CREATE"
    /\ node.socket = "open"
    /\ last.writes = << >>

\* C10: every updateVoiceState call with a VOICE_STATE_UPDATE or
\* VOICE_SERVER_UPDATE event writes exactly one frame to the socket, and
\* the frame is the JSON text of the whole event, unchanged.
C10Claim ==
    (/\ last.op = "updateVoiceState"
     /\ last.data.kind = "object"
     /\ last.data.t \in {"VOICE_SERVER_UPDATE", "VOICE_STATE_UPDATE"}) =>
        /\ Len(last.writes) = 1
        /\ last.writes[1] = JSONstringify(last.data)
        /\ JSONparse(last.writes[1]) = last.data

\* The latest operation was a search that got a response from the backend.
Resolved == last.op = "searchResult" /\ last.response # NoResponse

\* C11: for every response whose results list is empty, whatever its
\* identifier, search returns NO_RESULT with no tracks and the caller's
\* requester.
C11Theorem ==
    (Resolved /\ Len(last.response.results) = 0) =>
        /\ ~last.raised
        /\ last.result.type = "NO_RESULT"
        /\ last.result.tracks = << >>
        /\ last.result.requester = last.requester

\* An empty response carrying a non-search identifier has been resolved.
C11Witness ==
    /\ Resolved
    /\ last.response.results = << >>
    /\ last.response.identifier = "ytplaylist"
    /\ last.result.type = "NO_RESULT"

\* C12: for every playlist-shaped response (non-empty results whose first
\* entry carries nested tracks, identifier not a search tag) search returns
\* PLAYLIST with as many tracks as are nested, each requested by the caller's
\* requester.
C12Claim ==
    (/\ Resolved
     /\ Len(last.response.results) > 0
     /\ last.response.results[1].hasTracks
     /\ last.response.identifier \notin {"ytsearch", "scsearch"}) =>
        /\ last.result.type = "PLAYLIST"
        /\ Len(last.result.tracks) = Len(last.response.results[1].tracks)
        /\ \A i \in 1..Len(last.result.tracks) :
              last.result.tracks[i].requested_by = last.requester

\* C13: for every response with a non-empty results list and identifier
\* ytsearch or scsearch, search returns SEARCH_RESULT whose tracks are the
\* backend's results list as it is, with the caller's requester.
C13Theorem ==
    (/\ Resolved
     /\ Len(last.response.results) > 0
     /\ last.response.identifier \in {"ytsearch", "scsearch"}) =>
        /\ ~last.raised
        /\ last.result.type = "SEARCH_RESULT"
        /\ last.result.tracks = last.response.results
        /\ last.result.requester = last.requester

\* A two-track scsearch response has been resolved.
C13Witness ==
    /\ Resolved
    /\ last.response.identifier = "scsearch"
    /\ Len(last.response.results) = 2
    /\ last.result.type = "SEARCH_RESULT"

\* C14: a search whose request fails surfaces the failure to its caller
\* only: no SearchResult, and the registry, the initiated flag, the node
\* connection and every other search in flight are as they were.
C14Theorem ==
    [][ (last'.op \in {"search", "searchResult"} /\ last'.raised
         /\ last'.response = NoResponse) =>
            /\ last'.result = NoResult
            /\ UNCHANGED <<managerState, initCalled, calls, returned>>
            /\ \A u \in Requesters \ {last'.requester} : searches'[u] = searches[u]
      ]_vars

\* A search has failed while another search is in flight, sessions are
\* registered and the Manager is initiated.
C14Witness ==
    /\ last.op = "searchResult"
    /\ last.raised
    /\ last.response = NoResponse
    /\ \E u \in Requesters \ {last.requester} : searches[u] = "inflight"
    /\ DOMAIN players # {}
    /\ initiated

\* C15: for every options value the constructor accepts, exactly one Node
\* connection exists once construction completes, and no later operation
\* creates another.
C15Claim ==
    /\ nodes = 1
    /\ node.exists

\* C16: after construction the node identifier in the stored options is
\* "default" whenever the caller supplied none, also when the caller's
\* node options merely omit the identifier.
C16Claim ==
    options.node.defined => options.node.identifier = "default"

\* C17: the identifier test of resolveTrackData is true for every
\* identifier: every response with a non-empty results list yields
\* SEARCH_RESULT and no response yields PLAYLIST.
C17Theorem ==
    /\ \A identifier \in Identifiers : identifierTest(identifier)
    /\ Resolved =>
          /\ Len(last.response.results) > 0 => last.result.type = "SEARCH_RESULT"
          /\ last.result.type # "PLAYLIST"

\* A playlist-shaped response with a non-search identifier has been
\* resolved as SEARCH_RESULT.
C17Witness ==
    /\ Resolved
    /\ last.response.identifier = "ytplaylist"
    /\ last.response.results = <<PlaylistEntry>>
    /\ last.result.type = "SEARCH_RESULT"

\* C18: searches are independent: a requester with no search in flight can
\* always issue one, whatever the others are doing; each call issues
\* exactly one GET request; each resolves with the result of its own
\* response and its own requester and leaves the other searches in flight.
C18Theorem ==
    /\ [](\A u \in Requesters :
             (node.exists /\ searches[u] = "idle") =>
                 ENABLED SearchCall(UndefinedStr, u))
    /\ [][ /\ (last'.op = "search" /\ ~last'.raised) =>
                 /\ Len(last'.requests) = 1
                 /\ last'.requests[1].method = "GET"
                 /\ searches[last'.requester] = "idle"
                 /\ searches'[last'.requester] = "inflight"
                 /\ \A u \in Requesters \ {last'.requester} :
                       searches'[u] = searches[u]
           /\ (last'.op = "searchResult" /\ last'.response # NoResponse) =>
                 /\ last'.requests = << >>
                 /\ searches[last'.requester] = "inflight"
                 /\ searches'[last'.requester] = "idle"
                 /\ \A u \in Requesters \ {last'.requester} :
                       searches'[u] = searches[u]
                 /\ last'.result.requester = last'.requester
                 /\ last'.result = resolveTrackData(last'.response, last'.requester)
         ]_vars

\* userB's search, issued while userA's was in flight, has resolved first.
C18Witness ==
    /\ Resolved
    /\ last.requester = "userB"
    /\ last.result.requester = "userB"
    /\ searches["userA"] = "inflight"

\* C19: updateVoiceState with a recognized tag never uses an absent socket:
\* whenever it attempts a write the node's socket handle is live, so the
\* call does not raise, before init and after destroyNode included.
C19Claim ==
    (/\ last.op = "updateVoiceState"
     /\ last.data.kind = "object"
     /\ last.data.t \in RecognizedTags) =>
        /\ ~last.raised
        /\ node.exists
        /\ node.socket = "open"

\* C20: no Manager operation removes or replaces a registered session:
\* every operation but create leaves the registry as it is, create only
\* adds an entry, and the registered guild IDs never shrink.
C20Theorem ==
    [][ /\ last'.op # "create" => (players' = players /\ sessions' = sessions)
        /\ \A g \in DOMAIN players :
              g \in DOMAIN players' /\ players'[g] = players[g]
        /\ Len(sessions') >= Len(sessions)
        /\ \A i \in 1..Len(sessions) : sessions'[i] = sessions[i]
      ]_vars

\* destroyNode has run with sessions registered, and they are still there.
C20Witness ==
    /\ last.op = "destroyNode"
    /\ ~last.raised
    /\ node.socket = "closed"
    /\ DOMAIN players = Guilds

====
